---- MODULE Spec2Model ----
(***************************************************************************)
(* Model of the voice-activity detector and turn loop of src/main.go.      *)
(*                                                                         *)
(* Three kinds of threads take steps:                                      *)
(*   - the orchestrator (func main, the for-loop of lines 595-653),        *)
(*   - the capture thread, which runs AudioProcessor.audioCallback once    *)
(*     per frame while the stream is started,                              *)
(*   - the re-prompt goroutines spawned at line 194, each running          *)
(*     synthesizeSpeech.                                                   *)
(*                                                                         *)
(* float64 levels are kept in fixed point, Scale units per level unit.     *)
(* A frame is represented by its capture index and by the mean absolute    *)
(* value of its int16 samples, the only thing the detector reads of it.    *)
(* time.Since(ap.startTime) is the variable elapsed, in milliseconds; it   *)
(* is the only way the code reads the clock.  The capture device delivers  *)
(* one frame every FramesPerBuffer/SampleRate seconds, so the clock        *)
(* advances by one frame period with every callback invocation.            *)
(***************************************************************************)
EXTENDS Integers, Sequences, FiniteSets, TLC

\* ---------------------------------------------------------------- bounds
MaxFrames == 320    \* frames delivered to the callback per session
MaxTurns == 2       \* iterations of main's loop that call startRecording

\* ------------------------------------------------------ program constants
Scale == 1000                  \* fixed-point units per level unit
longTermAlpha == 995           \* per mille
currentNoiseAlpha == 920       \* per mille
voiceStartThreshold == 25      \* tenths
voiceEndThreshold == 15        \* tenths
minNoiseFloor == 100
adaptationPeriod == 50
maxPlaybackLevel == 10000
voiceDetectionTimeout == 5000  \* milliseconds
hysteresisCount == 10          \* the literal of "ap.silenceFrames > 10"
SampleRate == 16000
FramesPerBuffer == 512
bufferDurationTenths == 5      \* bufferDuration = 0.5 s

\* bufferSize := int(float64(config.SampleRate/config.FramesPerBuffer) * bufferDuration)
bufferSize == ((SampleRate \div FramesPerBuffer) * bufferDurationTenths) \div 10

\* the time between two callback invocations, in milliseconds
FramePeriod == (FramesPerBuffer * 1000) \div SampleRate

\* ------------------------------------------------------------ the inputs
\* A level profile is a sequence of segments; a segment of length 0 lasts
\* for the rest of the session.
Seg(l, n) == [level |-> l, len |-> n, samples |-> FramesPerBuffer]

\* a run of frames that do not have FramesPerBuffer samples
ShortSeg(l, n, c) == [level |-> l, len |-> n, samples |-> c]

Steady(l) == << Seg(l, 0) >>

Plans ==
    {   \* quiet room: never above the noise floor
        Steady(50),
        \* steady noise above the noise floor
        Steady(200),
        \* a quiet room, 20 loud frames, then silence
        << Seg(50, 50), Seg(5000, 20), Seg(0, 0) >>,
        \* speech from the first frame, then silence
        << Seg(200, 50), Seg(0, 0) >>,
        \* bursts at playback amplitude in a quiet room
        << Seg(20000, 2), Seg(50, 158), Seg(20000, 2), Seg(50, 0) >> }
    \* speech, then silence with one loud frame after j quiet frames (the
    \* first 13 frames of silence still decay above endThreshold)
    \cup { << Seg(200, 50), Seg(0, 13 + j), Seg(1000, 1), Seg(0, 0) >> :
             j \in {1, hysteresisCount - 1, hysteresisCount, hysteresisCount + 1} }
    \* a room with steady noise below the noise floor, 20 loud frames, then
    \* the same noise again
    \cup { << Seg(80, 50), Seg(5000, 20), Seg(80, 0) >> }
    \* speech whose first frame has half the configured number of samples
    \cup { << ShortSeg(200, 1, FramesPerBuffer \div 2), Seg(200, 49), Seg(0, 0) >> }

RECURSIVE SegAt(_, _)
SegAt(p, k) ==
    IF Len(p) = 1 \/ Head(p).len = 0 \/ k <= Head(p).len
    THEN Head(p)
    ELSE SegAt(Tail(p), k - Head(p).len)

LevelAt(p, k) == SegAt(p, k).level

VARIABLES
    \* AudioProcessor fields
    stream,          \* "nil" | "open" | "started"
    audioBuffer, frames,
    longTermNoise, currentNoise, ambientNoise,
    voiceDetected, silenceFrames, frameCount,
    elapsed,         \* time.Since(ap.startTime) at the last callback, in ms
    promptPlayed, isPlaying,
    \* threads
    mainpc,          \* position of func main
    cbpc,            \* "idle" | "blocked": the callback blocked in "ap.done <- true"
    prompts,         \* re-prompt goroutines: turn -> "none"|"spawned"|"playing"|"done"
    shouldExit,
    \* environment
    plan, delivered, turn,
    \* observations
    ev,              \* what the last callback invocation did
    sends,           \* sends on done attempted in this session
    outcome,         \* "none" | "completed" | "aborted": the first signal's kind
    rePrompts, aborts,
    subRun,          \* consecutive accepted frames with currentNoise < endThreshold in Speaking
    lastRun,         \* length of the last such run that a louder frame ended
    utterance        \* the frames saveWAV read

procVars == << stream, audioBuffer, frames, longTermNoise, currentNoise, ambientNoise,
               voiceDetected, silenceFrames, frameCount, elapsed, promptPlayed, isPlaying >>
threadVars == << mainpc, cbpc, prompts, shouldExit >>
envVars == << plan, delivered, turn >>
obsVars == << ev, sends, outcome, rePrompts, aborts, subRun, lastRun, utterance >>
vars == << procVars, threadVars, envVars, obsVars >>

\* Session state owned by the callback (everything but isPlaying and the stream).
sessionVars == << audioBuffer, frames, longTermNoise, currentNoise, ambientNoise,
                  voiceDetected, silenceFrames, frameCount, elapsed, promptPlayed >>

Max(a, b) == IF a >= b THEN a ELSE b

\* x*alpha + pegel*(1-alpha), alpha in per mille, x and the result in Scale units
Ema(x, pegel, alpha) == x + (((pegel * Scale - x) * (1000 - alpha)) \div 1000)

\* the mean absolute sample value of a frame (lines 177-181 and 157-161)
Pegel(buffer) == buffer.level

\* the start threshold without the noise floor
StartThresholdNoFloor(ltn) == (ltn * voiceStartThreshold) \div 10

\* the end threshold with the start multiplier
EndThresholdStartMultiplier(amb) ==
    Max((amb * voiceStartThreshold) \div 10, (minNoiseFloor * Scale) \div 2)

StartThreshold(ltn) == Max((ltn * voiceStartThreshold) \div 10, minNoiseFloor * Scale)
EndThreshold(amb) == Max((amb * voiceEndThreshold) \div 10, (minNoiseFloor * Scale) \div 2)

Init ==
    /\ stream = "nil"
    /\ audioBuffer = << >> /\ frames = << >>
    /\ longTermNoise = 0 /\ currentNoise = 0 /\ ambientNoise = 0
    /\ voiceDetected = FALSE /\ silenceFrames = 0 /\ frameCount = 0
    /\ elapsed = 0
    /\ promptPlayed = FALSE /\ isPlaying = FALSE
    /\ mainpc = "start" /\ cbpc = "idle"
    /\ prompts = [t \in 1..MaxTurns |-> "none"]
    /\ shouldExit = FALSE
    /\ plan \in Plans /\ delivered = 0 /\ turn = 0
    /\ ev = "none" /\ sends = 0 /\ outcome = "none"
    /\ rePrompts = 0 /\ aborts = 0 /\ subRun = 0 /\ lastRun = 0
    /\ utterance = << >>

\* ------------------------------------------------------------ done channel
\* "ap.done <- true" on the unbuffered channel made at line 147: the send
\* completes at once when main is parked in "<-ap.done", otherwise the
\* sending callback blocks until a receiver comes.
Send(kind) ==
    /\ sends' = sends + 1
    /\ outcome' = IF outcome = "none" THEN kind ELSE outcome
    /\ IF mainpc = "recv"
       THEN mainpc' = "stop" /\ cbpc' = "idle"
       ELSE mainpc' = mainpc /\ cbpc' = "blocked"

NoSend == UNCHANGED << sends, outcome, mainpc, cbpc >>

\* ------------------------------------------------------------ audioCallback
\* EchoGuard without the isPlaying test
EchoGuardIgnoresPlaying(playing, currentLevel) == currentLevel > maxPlaybackLevel

\* line 184
EchoGuard(playing, currentLevel) == playing /\ currentLevel > maxPlaybackLevel

\* line 191 and line 203
TimedOut(e) == e > voiceDetectionTimeout

\* the timeout test made whether or not speech is confirmed
CheckTimeoutAlways(vd, e) == TimedOut(e)

\* lines 189-191: the timeout is looked at only while voice is not detected
CheckTimeout(vd, e) == ~vd /\ TimedOut(e)

\* promptPlayed left unset by the re-prompt
PromptPlayedForgotten == FALSE

\* line 200: ap.promptPlayed = true
PromptPlayedAfterRePrompt == TRUE

\* the hysteresis test off by one
SilenceExceededEarly(n) == n >= hysteresisCount

\* line 235
SilenceExceeded(n) == n > hysteresisCount

\* lines 232-241: the silence counter after a frame in Speaking
SilenceUpdate(sf, quiet) == IF quiet THEN sf + 1 ELSE 0

\* line 245
Adapting(fc) == fc < adaptationPeriod

\* line 211: ap.audioBuffer = append(ap.audioBuffer, buffer)
PreRollAppend(buf, buffer) == Append(buf, buffer)

\* the snapshot taken of the fast estimate
AmbientSnapshotOfCurrent(ltn, cn) == cn

\* line 252: ap.ambientNoise = longTermNoise
AmbientSnapshot(ltn, cn) == ltn

\* the speech buffer without the quiet frames
SpeechAppendLoudOnly(fr, buffer, quiet) == IF quiet THEN fr ELSE Append(fr, buffer)

\* line 231: ap.frames = append(ap.frames, buffer), before the level is compared
SpeechAppend(fr, buffer, quiet) == Append(fr, buffer)

\* line 253: ap.frames = append(ap.frames, ap.audioBuffer...)
SeedFrames(fr, buf) == fr \o buf

\* the frame the capture thread delivers next
NextFrame == [seq |-> delivered + 1, level |-> LevelAt(plan, delivered + 1),
              samples |-> SegAt(plan, delivered + 1).samples, turn |-> turn]

CallbackEnabled == stream = "started" /\ cbpc = "idle" /\ delivered < MaxFrames

\* line 190: elapsed := time.Since(ap.startTime), one frame period later
\* than at the previous invocation
Elapsed == elapsed + FramePeriod

\* lines 183-186: the frame is taken for the system's own playback
CallbackDrop ==
    /\ CallbackEnabled
    /\ EchoGuard(isPlaying, Pegel(NextFrame))
    /\ delivered' = delivered + 1
    /\ ev' = "dropped"
    /\ elapsed' = Elapsed
    /\ NoSend
    /\ UNCHANGED << stream, audioBuffer, frames, longTermNoise, currentNoise,
                    ambientNoise, voiceDetected, silenceFrames, frameCount,
                    promptPlayed, isPlaying, prompts, shouldExit, plan, turn,
                    rePrompts, aborts, subRun, lastRun, utterance >>

\* lines 189-202: first timeout, the re-prompt is played by a new goroutine
CallbackRePrompt ==
    /\ CallbackEnabled
    /\ ~EchoGuard(isPlaying, Pegel(NextFrame))
    /\ CheckTimeout(voiceDetected, Elapsed) /\ ~promptPlayed
    /\ prompts' = [prompts EXCEPT ![turn] = "spawned"]
    /\ promptPlayed' = PromptPlayedAfterRePrompt
    /\ elapsed' = 0
    /\ delivered' = delivered + 1
    /\ ev' = "reprompt"
    /\ rePrompts' = rePrompts + 1
    /\ NoSend
    /\ UNCHANGED << stream, audioBuffer, frames, longTermNoise, currentNoise,
                    ambientNoise, voiceDetected, silenceFrames, frameCount, isPlaying,
                    shouldExit, plan, turn, aborts, subRun, lastRun, utterance >>

\* lines 203-207: second timeout
CallbackAbort ==
    /\ CallbackEnabled
    /\ ~EchoGuard(isPlaying, Pegel(NextFrame))
    /\ CheckTimeout(voiceDetected, Elapsed) /\ promptPlayed
    /\ Send("aborted")
    /\ elapsed' = Elapsed
    /\ delivered' = delivered + 1
    /\ ev' = "abort"
    /\ aborts' = aborts + 1
    /\ UNCHANGED << stream, audioBuffer, frames, longTermNoise, currentNoise,
                    ambientNoise, voiceDetected, silenceFrames, frameCount,
                    promptPlayed, isPlaying, prompts, shouldExit, plan, turn,
                    rePrompts, subRun, lastRun, utterance >>

\* lines 210-215 and 242-256: an accepted frame before speech is confirmed
CallbackListening ==
    /\ CallbackEnabled
    /\ ~EchoGuard(isPlaying, Pegel(NextFrame))
    /\ ~voiceDetected /\ ~CheckTimeout(voiceDetected, Elapsed)
    /\ elapsed' = Elapsed
    /\ LET buffer == NextFrame
           ltn == Ema(longTermNoise, Pegel(buffer), longTermAlpha)
           cn == Ema(currentNoise, Pegel(buffer), currentNoiseAlpha)
           buf == PreRollAppend(audioBuffer, buffer)
           fc == frameCount + 1
       IN  /\ longTermNoise' = ltn
           /\ currentNoise' = cn
           /\ audioBuffer' = buf
           /\ frameCount' = fc
           /\ IF ~Adapting(fc) /\ cn > StartThreshold(ltn)
              THEN /\ voiceDetected' = TRUE
                   /\ ambientNoise' = AmbientSnapshot(ltn, cn)
                   /\ frames' = SeedFrames(frames, buf)
                   /\ silenceFrames' = 0
                   /\ ev' = "trigger"
              ELSE /\ UNCHANGED << voiceDetected, ambientNoise, frames, silenceFrames >>
                   /\ ev' = IF Adapting(fc) THEN "adapt" ELSE "listen"
    /\ delivered' = delivered + 1
    /\ subRun' = 0
    /\ NoSend
    /\ UNCHANGED << stream, promptPlayed, isPlaying, prompts, shouldExit,
                    plan, turn, rePrompts, aborts, lastRun, utterance >>

\* lines 210-215 and 230-241: an accepted frame after speech is confirmed
CallbackSpeaking ==
    /\ CallbackEnabled
    /\ ~EchoGuard(isPlaying, Pegel(NextFrame))
    /\ voiceDetected /\ ~CheckTimeout(voiceDetected, Elapsed)
    /\ elapsed' = Elapsed
    /\ LET buffer == NextFrame
           ltn == Ema(longTermNoise, Pegel(buffer), longTermAlpha)
           cn == Ema(currentNoise, Pegel(buffer), currentNoiseAlpha)
           quiet == cn < EndThreshold(ambientNoise)
           sf == SilenceUpdate(silenceFrames, quiet)
       IN  /\ longTermNoise' = ltn
           /\ currentNoise' = cn
           /\ audioBuffer' = PreRollAppend(audioBuffer, buffer)
           /\ frames' = SpeechAppend(frames, buffer, quiet)
           /\ silenceFrames' = sf
           /\ subRun' = IF quiet THEN subRun + 1 ELSE 0
           /\ lastRun' = IF ~quiet /\ subRun > 0 THEN subRun ELSE lastRun
           /\ IF quiet /\ SilenceExceeded(sf)
              THEN Send("completed") /\ ev' = "complete"
              ELSE NoSend /\ ev' = IF quiet THEN "silence" ELSE "speech"
    /\ delivered' = delivered + 1
    /\ UNCHANGED << stream, ambientNoise, voiceDetected, frameCount,
                    promptPlayed, isPlaying, prompts, shouldExit, plan, turn,
                    rePrompts, aborts, utterance >>

\* ------------------------------------------------- the re-prompt goroutine
\* synthesizeSpeech, line 490
PromptBegin(t) ==
    /\ prompts[t] = "spawned"
    /\ isPlaying' = TRUE
    /\ prompts' = [prompts EXCEPT ![t] = "playing"]
    /\ UNCHANGED << stream, sessionVars, mainpc, cbpc, shouldExit, envVars, obsVars >>

\* synthesizeSpeech, the deferred function of lines 491-495, on every return
PromptEnd(t) ==
    /\ prompts[t] = "playing"
    /\ isPlaying' = FALSE
    /\ prompts' = [prompts EXCEPT ![t] = "done"]
    /\ UNCHANGED << stream, sessionVars, mainpc, cbpc, shouldExit, envVars, obsVars >>

\* --------------------------------------------------------------- func main
\* the speech buffer carried over into the next session
ResetFramesKept(fr) == fr

\* line 263: ap.frames = ap.frames[:0]
ResetFrames(fr) == << >>

\* startRecording, lines 259-314, succeeding
StartRecording ==
    /\ mainpc = "start" /\ turn < MaxTurns
    /\ turn' = turn + 1
    /\ voiceDetected' = FALSE
    /\ audioBuffer' = << >> /\ frames' = ResetFrames(frames)
    /\ longTermNoise' = 0 /\ currentNoise' = 0 /\ ambientNoise' = 0
    /\ silenceFrames' = 0 /\ frameCount' = 0
    /\ elapsed' = 0
    /\ promptPlayed' = FALSE
    /\ stream' = "started"
    /\ mainpc' = "processAudio"
    /\ delivered' = 0
    /\ ev' = "none" /\ sends' = 0 /\ outcome' = "none"
    /\ rePrompts' = 0 /\ aborts' = 0 /\ subRun' = 0 /\ lastRun' = 0
    /\ utterance' = << >>
    /\ UNCHANGED << isPlaying, cbpc, prompts, shouldExit, plan >>

\* startRecording returning an error (lines 276-278, 301-303, 308-310);
\* main prints it and continues with the next iteration (lines 601-604)
StartRecordingFails ==
    /\ mainpc = "start" /\ turn < MaxTurns
    /\ voiceDetected' = FALSE
    /\ audioBuffer' = << >> /\ frames' = ResetFrames(frames)
    /\ longTermNoise' = 0 /\ currentNoise' = 0 /\ ambientNoise' = 0
    /\ silenceFrames' = 0 /\ frameCount' = 0
    /\ elapsed' = 0
    /\ promptPlayed' = FALSE
    /\ stream' \in {stream, "nil", "open"}
    /\ mainpc' = "start"
    /\ delivered' = 0
    /\ ev' = "none" /\ sends' = 0 /\ outcome' = "none"
    /\ rePrompts' = 0 /\ aborts' = 0 /\ subRun' = 0 /\ lastRun' = 0
    /\ utterance' = << >>
    /\ UNCHANGED << isPlaying, cbpc, prompts, shouldExit, plan, turn >>

\* processAudio, lines 316-325: main reaches "<-ap.done"
ProcessAudio ==
    /\ mainpc = "processAudio"
    /\ IF cbpc = "blocked"
       THEN cbpc' = "idle" /\ mainpc' = "stop"
       ELSE cbpc' = cbpc /\ mainpc' = "recv"
    /\ UNCHANGED << procVars, prompts, shouldExit, envVars, obsVars >>

\* the stream left running when main goes on to saveWAV
StreamLeftRunning == "started"

\* lines 614-616: Stop, Close, processor.stream = nil
StreamAfterStop == "nil"

\* lines 613-617: Stop returns once no callback is running
StopStream ==
    /\ mainpc = "stop"
    /\ cbpc = "idle"
    /\ stream' = StreamAfterStop
    /\ mainpc' = "saveWAV"
    /\ UNCHANGED << sessionVars, isPlaying, cbpc, prompts, shouldExit, envVars, obsVars >>

\* lines 620-624
SaveWAV ==
    /\ mainpc = "saveWAV"
    /\ utterance' = frames
    /\ \E ok \in BOOLEAN : mainpc' = IF ok THEN "transcribe" ELSE "start"
    /\ UNCHANGED << procVars, cbpc, prompts, shouldExit, envVars,
                    ev, sends, outcome, rePrompts, aborts, subRun, lastRun >>

\* lines 627-631
TranscribeAudio ==
    /\ mainpc = "transcribe"
    /\ \E ok \in BOOLEAN : mainpc' = IF ok THEN "generate" ELSE "start"
    /\ UNCHANGED << procVars, cbpc, prompts, shouldExit, envVars, obsVars >>

\* lines 635-639
GenerateResponse ==
    /\ mainpc = "generate"
    /\ \E ok \in BOOLEAN, exit \in BOOLEAN :
          IF ok
          THEN mainpc' = "synthesize" /\ shouldExit' = exit
          ELSE mainpc' = "start" /\ shouldExit' = FALSE
    /\ UNCHANGED << procVars, cbpc, prompts, envVars, obsVars >>

\* line 642 entering synthesizeSpeech, line 490
SynthesizeBegin ==
    /\ mainpc = "synthesize"
    /\ isPlaying' = TRUE
    /\ mainpc' = "speaking"
    /\ UNCHANGED << stream, sessionVars, cbpc, prompts, shouldExit, envVars, obsVars >>

\* synthesizeSpeech returning (lines 491-495), then lines 643-652
SynthesizeEnd ==
    /\ mainpc = "speaking"
    /\ isPlaying' = FALSE
    /\ \E ok \in BOOLEAN : mainpc' = IF ok /\ shouldExit THEN "exit" ELSE "start"
    /\ shouldExit' = FALSE
    /\ UNCHANGED << stream, sessionVars, cbpc, prompts, envVars, obsVars >>

\* line 586: the deferred cleanup when main returns (lines 563-570)
Cleanup ==
    /\ mainpc = "exit"
    /\ cbpc = "idle"
    /\ stream' = "nil"
    /\ mainpc' = "done"
    /\ UNCHANGED << sessionVars, isPlaying, cbpc, prompts, shouldExit, envVars, obsVars >>

Next ==
    \/ CallbackDrop
    \/ CallbackRePrompt
    \/ CallbackAbort
    \/ CallbackListening
    \/ CallbackSpeaking
    \/ \E t \in 1..MaxTurns : PromptBegin(t)
    \/ \E t \in 1..MaxTurns : PromptEnd(t)
    \/ StartRecording
    \/ StartRecordingFails
    \/ ProcessAudio
    \/ StopStream
    \/ SaveWAV
    \/ TranscribeAudio
    \/ GenerateResponse
    \/ SynthesizeBegin
    \/ SynthesizeEnd
    \/ Cleanup

Spec == Init /\ [][Next]_vars

\* ================================================================ claims
Min(a, b) == IF a <= b THEN a ELSE b

\* main is past the stream's stop, working on what the session recorded
Downstream == {"saveWAV", "transcribe", "generate", "synthesize", "speaking"}

\* a step of the capture thread: one more frame delivered
CallbackStep == delivered' = delivered + 1

\* the frame about to be delivered arrives during playback, above the echo level
EchoCondition == isPlaying /\ NextFrame.level > maxPlaybackLevel

\* every frame delivered so far in this session had the same instant level
SteadyInput == \A k \in 1..delivered : LevelAt(plan, k) = LevelAt(plan, 1)

\* C1: per session at most one send on done is attempted, so that no sender
\* is left pending and no signal outlives its session.
C1_OneSignalPerSession == sends <= 1

\* C2: main works downstream (saveWAV, transcribeAudio, generateResponse,
\* the reply) only on a session that ended Completed, never on an Aborted one.
C2_OnlyCompletedGoesDownstream == mainpc \in Downstream => outcome = "completed"

\* C3: no invocation of audioCallback blocks: the callback is never parked
\* in a send on done.
C3_CallbackNeverBlocks == cbpc = "idle"

\* C4: in a session that never confirms speech there is at most one RePrompt
\* event and at most one SessionAborted event, the abort only after the
\* re-prompt, and no frame is handed on as an utterance.
C4_TimeoutSequencing ==
    ~voiceDetected =>
        /\ rePrompts <= 1
        /\ aborts <= 1
        /\ (aborts >= 1 => rePrompts = 1)
        /\ utterance = << >>

\* C5: while every frame of the session has had the same instant level,
\* the detector has not made the Listening -> Speaking transition.
C5_SteadyNoiseNeverTriggers == SteadyInput => ~voiceDetected

\* C6: the pre-roll buffer holds at most bufferSize frames and takes no
\* frame after speech is confirmed (it never holds more frames than were
\* counted before the trigger).
C6_PreRollBounded ==
    /\ Len(audioBuffer) <= bufferSize
    /\ Len(audioBuffer) <= frameCount

\* C7: at the trigger the speech buffer is the last min(K, bufferSize)
\* pre-trigger frames followed by the trigger frame, K being the number of
\* frames accepted before the trigger frame.
C7_PreRollSeed ==
    ev = "trigger" => Len(frames) = Min(frameCount - 1, bufferSize) + 1

\* C8: during Speaking the session completes exactly on the
\* (hysteresisCount+1)-th consecutive frame whose currentNoise is below
\* endThreshold; a frame not below it puts the silence counter back to 0, so
\* a run of hysteresisCount or fewer such frames never completes the session.
C8_Hysteresis ==
    /\ (ev = "complete" /\ sends = 1) => subRun = hysteresisCount + 1
    /\ (voiceDetected /\ sends = 0) =>
          (subRun <= hysteresisCount /\ silenceFrames = subRun)
    /\ ev = "speech" => silenceFrames = 0

\* C8 witness: a session completed after a run of exactly hysteresisCount
\* quiet frames had been ended by a louder frame.
C8_Witness == ev = "complete" /\ sends = 1 /\ lastRun = hysteresisCount

\* what a dropped frame leaves alone: the noise model, both buffers, the
\* counters, the flags, startTime (the clock just runs on), and no event
NoEffect ==
    /\ UNCHANGED << longTermNoise, currentNoise, ambientNoise, audioBuffer, frames,
                    silenceFrames, frameCount, promptPlayed, voiceDetected,
                    prompts, sends, outcome, rePrompts, aborts, mainpc, cbpc >>
    /\ elapsed' = Elapsed

\* C9: a frame delivered while isPlaying is set and above maxPlaybackLevel
\* changes nothing of the session and emits no event, and every other frame
\* changes something: frames are dropped under exactly that condition.
C9_EchoGuardIsolation == [][CallbackStep => (EchoCondition <=> NoEffect)]_vars

\* C9 witness: a frame was dropped in a session that had accepted others.
C9_Witness == ev = "dropped" /\ Len(audioBuffer) > 0 /\ Len(audioBuffer) < delivered

\* C10: every frame not dropped by EchoGuard updates longTermNoise and
\* currentNoise by the EMA rule, the frames on which a timeout fires included.
C10_EveryAcceptedFrameUpdatesLevels ==
    [][(CallbackStep /\ ~EchoCondition) =>
          /\ longTermNoise' = Ema(longTermNoise, NextFrame.level, longTermAlpha)
          /\ currentNoise' = Ema(currentNoise, NextFrame.level, currentNoiseAlpha)]_vars

\* a step inside a session: main is not at the top of its loop, where
\* startRecording resets the session
InSession == mainpc # "start"

\* C11: within a session the Listening -> Speaking transition is made at
\* most once: ambientNoise changes only on that step, to the longTermNoise of
\* the trigger frame, the speech buffer is set from the pre-roll buffer only
\* on that step, and once voice is detected no later frame, however loud,
\* makes the transition again: it is at most appended to the speech buffer.
C11_SingleTrigger ==
    [][InSession =>
          /\ voiceDetected =>
                /\ voiceDetected'
                /\ ambientNoise' = ambientNoise
                /\ frames' \in {frames, Append(frames, NextFrame)}
          /\ (ambientNoise' # ambientNoise \/ (frames' # frames /\ ~voiceDetected)) =>
                /\ ~voiceDetected /\ voiceDetected'
                /\ ambientNoise' = longTermNoise'
                /\ frames' = audioBuffer']_vars

\* C11 witness: a loud frame was taken while Speaking, with the long-term
\* estimate already above the ambient level kept from the trigger.
C11_Witness ==
    /\ voiceDetected /\ ev = "speech"
    /\ Len(frames) > frameCount
    /\ ambientNoise > 0 /\ ambientNoise < longTermNoise

\* the scenario of 50 frames at level 50, 20 frames at level 5000, then silence
ScenarioPlan == << Seg(50, adaptationPeriod), Seg(5000, 20), Seg(0, 0) >>

\* the frames numbered 1..n of the session, as delivered
FirstFrames(n) ==
    [k \in 1..n |-> [seq |-> k, level |-> LevelAt(plan, k),
                     samples |-> SegAt(plan, k).samples, turn |-> turn]]

\* C12 as stated: in the scenario voice is detected on frame 51 and the
\* session completes on frame 51 + 20 + (hysteresisCount + 1) = 82.
C12_ScenarioAsStated ==
    plan = ScenarioPlan =>
        /\ ev = "trigger" => delivered = adaptationPeriod + 1
        /\ (ev = "complete" /\ sends = 1) =>
              delivered = adaptationPeriod + 1 + 20 + hysteresisCount + 1

\* C12: in the scenario voice is detected on frame 51 and the session
\* completes on frame 132, when currentNoise has decayed below the end
\* threshold and hysteresisCount + 1 frames have stayed below it; the speech
\* buffer is then every frame 1..132: the 50 quiet frames, the 20 loud ones
\* and the 62 silent ones.
C12_Scenario ==
    plan = ScenarioPlan =>
        /\ ev = "trigger" => delivered = adaptationPeriod + 1
        /\ (ev = "complete" /\ sends = 1) =>
              /\ delivered = 132
              /\ subRun = hysteresisCount + 1
              /\ frames = FirstFrames(132)

\* C12 witness: the scenario's session has completed.
C12_Witness ==
    /\ plan = ScenarioPlan /\ ev = "complete" /\ sends = 1
    /\ Len(frames) = 132 /\ frames[71].level = 0 /\ frames[70].level = 5000

\* C13: none of the first adaptationPeriod accepted frames of a session
\* makes the transition to Speaking: the earliest frame that can trigger is
\* the (adaptationPeriod + 1)-th accepted one.
C13_WarmUpNeverTriggers == ev = "trigger" => frameCount > adaptationPeriod

\* the warm-up frames are still taken into the noise model and the pre-roll
\* buffer: while no timeout has fired, every accepted frame is in audioBuffer
\* and the estimates have moved off zero
C13_WarmUpStillFeeds ==
    (~voiceDetected /\ rePrompts = 0 /\ frameCount < adaptationPeriod) =>
        /\ Len(audioBuffer) = frameCount
        /\ (frameCount > 0 /\ LevelAt(plan, 1) > 0) =>
              (longTermNoise > 0 /\ currentNoise > 0)

\* the session's first completion signal has just been raised
Completing == ev = "complete" /\ sends = 1

\* C14: the utterance of a completed session is the whole speech buffer:
\* the pre-roll contents of the trigger followed by every frame accepted
\* while Speaking, in capture order, its last hysteresisCount + 1 entries
\* being the quiet frames that ended the speech; saveWAV takes all of it.
C14_UtteranceIsWholeBuffer ==
    /\ voiceDetected =>
          /\ frames = audioBuffer
          /\ \A i \in 1..(Len(frames) - 1) : frames[i].seq < frames[i + 1].seq
    /\ Completing =>
          \A i \in 0..hysteresisCount :
              frames[Len(frames) - i] = FirstFrames(delivered)[delivered - i]
    /\ (mainpc \in Downstream \ {"saveWAV"}) => utterance = frames

\* C14 witness: main has read the utterance of a completed session, longer
\* than the frames counted before the trigger plus the hysteresis window.
C14_Witness ==
    /\ mainpc = "transcribe" /\ outcome = "completed"
    /\ Len(utterance) > frameCount + hysteresisCount
    /\ utterance[Len(utterance)].seq = delivered

\* the level of a steady input, on the scale of the estimates
SteadyLevel == LevelAt(plan, 1) * Scale

\* every frame delivered so far was accepted: none above the echo level,
\* none taken by a timeout
AllAccepted == LevelAt(plan, 1) <= maxPlaybackLevel /\ rePrompts = 0 /\ aborts = 0

\* C15: with every accepted frame at the same level L, once more than
\* adaptationPeriod frames have been fed longTermNoise is within a small
\* epsilon of L (a tenth of L is allowed here).
C15_EmaConverged ==
    (SteadyInput /\ AllAccepted /\ delivered > adaptationPeriod) =>
        10 * (SteadyLevel - longTermNoise) <= SteadyLevel

\* the other half of C15: on a steady input longTermNoise only rises and
\* never passes L
C15_MonotoneNoOvershoot ==
    [][(SteadyInput' /\ CallbackStep) =>
          (longTermNoise <= longTermNoise' /\ longTermNoise' <= SteadyLevel)]_vars

\* the frame about to be delivered has not the configured number of samples
Malformed == NextFrame.samples # FramesPerBuffer

\* C16: a frame whose sample count differs from FramesPerBuffer is
\* rejected: it updates neither estimate, is put in no buffer and changes
\* neither the counters nor the detector's state.
C16_MalformedFrameRejected ==
    [][(CallbackStep /\ Malformed) =>
          UNCHANGED << longTermNoise, currentNoise, ambientNoise, audioBuffer,
                       frames, frameCount, silenceFrames, voiceDetected >>]_vars

\* what happens instead to a malformed first frame: it is taken like any
\* other, and is the first frame of the speech buffer at the trigger
C16_MalformedFrameCounted ==
    (delivered = adaptationPeriod /\ SegAt(plan, 1).samples # FramesPerBuffer) =>
        (voiceDetected /\ frames[1].samples # FramesPerBuffer)

\* a terminal transition has been made: the send on done has been attempted
Terminal == sends >= 1

\* C17: once the session is Completed or Aborted, a callback invocation
\* that comes before the stream is stopped leaves both buffers, the noise
\* model, the counters and the flags as they were.
C17_NoFrameAfterTerminal ==
    [][(Terminal /\ CallbackStep) =>
          UNCHANGED << longTermNoise, currentNoise, ambientNoise, audioBuffer,
                       frames, frameCount, silenceFrames, voiceDetected,
                       promptPlayed, sends >>]_vars

\* what follows for main if C17 held: the utterance it reads has no frame
\* delivered after the first completion signal
C17_UtteranceAsAtTerminal ==
    (mainpc = "transcribe" /\ outcome = "completed" /\ sends = 1) =>
        ~(ev \in {"speech", "silence"})

\* the frame about to be delivered is taken in Listening: no echo drop, no
\* timeout on it, the adaptation period over once it is counted
ListeningFrame ==
    /\ CallbackStep /\ ~EchoCondition
    /\ ~voiceDetected /\ ~(Elapsed > voiceDetectionTimeout)
    /\ frameCount + 1 >= adaptationPeriod

\* the frame about to be delivered is taken in Speaking
SpeakingFrame == CallbackStep /\ ~EchoCondition /\ voiceDetected

\* C18: a frame taken in Listening sets voiceDetected if and only if the
\* updated currentNoise is strictly above max(longTermNoise * 2.5, 100), so
\* never while currentNoise <= minNoiseFloor; on that step ambientNoise is
\* the updated longTermNoise, frames is the pre-roll buffer and silenceFrames
\* is 0; from then on a frame counts as quiet exactly when currentNoise is
\* below max(ambientNoise * 1.5, 50).
C18_TriggerRule ==
    [][/\ ListeningFrame =>
            /\ voiceDetected' <=>
                  currentNoise' > Max((longTermNoise' * 25) \div 10, 100 * Scale)
            /\ voiceDetected' =>
                  /\ currentNoise' > minNoiseFloor * Scale
                  /\ ambientNoise' = longTermNoise'
                  /\ frames' = audioBuffer'
                  /\ silenceFrames' = 0
       /\ (SpeakingFrame /\ silenceFrames <= hysteresisCount) =>
            (silenceFrames' = silenceFrames + 1 <=>
                 currentNoise' < Max((ambientNoise * 15) \div 10, 50 * Scale))]_vars

\* C18 witness: a trigger after the adaptation period, on a frame whose
\* predecessors were taken in Listening without triggering.
C18_Witness ==
    /\ ev = "trigger" /\ frameCount > adaptationPeriod
    /\ longTermNoise * 25 < minNoiseFloor * Scale * 10

\* C19: the timeout is looked at only before voice is detected: a frame
\* delivered while Speaking raises no re-prompt and no abort and leaves
\* promptPlayed and startTime's clock alone, however long the session has
\* lasted, and a session that has detected voice never ends as aborted.
C19_NoTimeoutWhileSpeaking ==
    [][/\ (voiceDetected /\ CallbackStep) =>
            /\ rePrompts' = rePrompts /\ aborts' = aborts
            /\ promptPlayed' = promptPlayed /\ prompts' = prompts
            /\ elapsed' = Elapsed
            /\ sends' > sends => ev' = "complete"
       /\ voiceDetected' => outcome' \in {"none", "completed"}]_vars

\* C19 witness: a frame was taken as speech more than voiceDetectionTimeout
\* after the session started, without a re-prompt having been played.
C19_Witness ==
    /\ voiceDetected /\ ev = "speech"
    /\ elapsed > voiceDetectionTimeout
    /\ ~promptPlayed /\ sends = 0

\* C20: the frame that raises the re-prompt leaves voiceDetected unset,
\* sets promptPlayed, restarts the timeout clock and hands the prompt to a
\* goroutine of its own without waiting for it: the callback is back idle
\* with the prompt only spawned and isPlaying untouched; it is the first
\* re-prompt of the session, and no other frame starts or awaits a prompt.
C20_RePromptDispatch ==
    [][/\ rePrompts' = rePrompts + 1 =>
            /\ rePrompts = 0 /\ ~promptPlayed
            /\ CallbackStep
            /\ ~voiceDetected /\ ~voiceDetected'
            /\ promptPlayed'
            /\ elapsed' = 0
            /\ prompts[turn] = "none" /\ prompts'[turn] = "spawned"
            /\ cbpc' = "idle" /\ isPlaying' = isPlaying
            /\ UNCHANGED << sends, mainpc >>
       /\ (CallbackStep /\ rePrompts' = rePrompts) => prompts' = prompts]_vars

\* C20 witness: a frame was delivered, and dropped by the echo guard, while
\* the session's re-prompt was playing in its goroutine.
C20_Witness ==
    /\ rePrompts = 1 /\ turn >= 1 /\ prompts[turn] = "playing"
    /\ ev = "dropped" /\ isPlaying /\ promptPlayed

\* a step of startRecording: main at the top of its loop, and not a step
\* of a re-prompt goroutine
ResetStep == mainpc = "start" /\ prompts' = prompts

\* C21: whatever the previous turn left behind, startRecording leaves
\* voiceDetected false, both buffers empty, the three noise levels, the two
\* counters and the timeout clock at zero and promptPlayed false; and every
\* frame in the speech buffer and in the utterance main reads was delivered
\* in the current turn.
C21_CleanSession ==
    [][/\ ResetStep =>
            /\ ~voiceDetected'
            /\ audioBuffer' = << >> /\ frames' = << >>
            /\ longTermNoise' = 0 /\ currentNoise' = 0 /\ ambientNoise' = 0
            /\ silenceFrames' = 0 /\ frameCount' = 0
            /\ ~promptPlayed' /\ elapsed' = 0
            /\ utterance' = << >>
       /\ \A i \in 1..Len(frames') : frames'[i].turn = turn'
       /\ \A i \in 1..Len(utterance') : utterance'[i].turn = turn']_vars

\* C21 witness: main has read the utterance of a second turn, after a first
\* turn that had played its re-prompt.
C21_Witness ==
    /\ turn = 2 /\ mainpc = "transcribe"
    /\ Len(utterance) > 0 /\ utterance[1].seq = 1
    /\ prompts[1] # "none"

\* where main is while the stream of a session runs: waiting in
\* processAudio for done, or stopping the stream
MainWaits == {"processAudio", "recv", "stop"}

\* a callback of the stream can run or is still in flight
CallbackAlive == stream = "started" \/ cbpc = "blocked"

\* C22: the session state other than isPlaying is written, and frames is
\* read by saveWAV, only by the callback, or by main while no callback can
\* run: the stream is running only while main waits in processAudio or
\* stops the stream, the callback runs only then, startRecording resets and
\* saveWAV reads with no stream running, and a step of a re-prompt goroutine
\* touches nothing of the session but isPlaying.
C22_SessionStateOwnedByCallback ==
    [][/\ CallbackAlive => mainpc \in MainWaits
       /\ CallbackStep => (stream = "started" /\ mainpc \in MainWaits)
       /\ ((sessionVars' # sessionVars \/ utterance' # utterance) /\ ~CallbackStep) =>
             (~CallbackAlive /\ mainpc \in {"start", "saveWAV"})
       /\ (prompts' # prompts /\ ~CallbackStep) =>
             UNCHANGED << sessionVars, stream, utterance >>]_vars

\* C22 witness: saveWAV has read the frames of a stopped stream while the
\* turn's re-prompt goroutine, which holds isPlaying, was still playing.
C22_Witness ==
    /\ mainpc = "transcribe" /\ stream = "nil"
    /\ Len(utterance) > 0
    /\ turn >= 1 /\ prompts[turn] = "playing" /\ isPlaying

\* a playback started by synthesizeSpeech is in progress: main's reply or
\* the re-prompt of some turn
PlaybackInProgress ==
    mainpc = "speaking" \/ \E t \in 1..MaxTurns : prompts[t] = "playing"

\* C23: while any playback started by synthesizeSpeech is in progress
\* isPlaying is true, overlapping playbacks included.
C23_PlayingWhilePlayback == PlaybackInProgress => isPlaying

\* the same during capture only: the stream runs and a re-prompt plays
C23_ArmedDuringCapture ==
    (stream = "started" /\ \E t \in 1..MaxTurns : prompts[t] = "playing") => isPlaying

\* ambient noise at level 80, 20 frames of speech, then the ambient noise again
ReturnPlan == << Seg(80, adaptationPeriod), Seg(5000, 20), Seg(80, 0) >>

\* the level of the input before the speech and after it
AmbientLevel == ReturnPlan[1].level * Scale

\* the speech is over: every frame from now on has the ambient level
InputBackAtAmbient ==
    plan = ReturnPlan /\ delivered >= ReturnPlan[1].len + ReturnPlan[2].len

\* in Speaking with currentNoise at rest on the input level, at or above
\* the end threshold: no later frame at that level is counted as quiet
StuckInSpeaking ==
    /\ voiceDetected /\ sends = 0
    /\ currentNoise = Ema(currentNoise, ReturnPlan[1].level, currentNoiseAlpha)
    /\ currentNoise >= EndThreshold(ambientNoise)

\* C24: with the input back at the ambient level it had before the trigger,
\* a level that did not trigger by itself, the session is never left in
\* Speaking with currentNoise settled at or above the end threshold, where
\* no number of further frames completes it.
C24_EndOfSpeechDetectable == InputBackAtAmbient => ~StuckInSpeaking

\* the second half of C24: the end threshold made from the ambient snapshot
\* is above the ambient level
C24_EndThresholdAboveAmbient ==
    (plan = ReturnPlan /\ voiceDetected) => EndThreshold(ambientNoise) > AmbientLevel

\* in that room the ambient noise does not trigger: voice is detected on
\* the first loud frame, and the session has not completed when frames end
C24_ReturnPlanCourse ==
    plan = ReturnPlan =>
        /\ ev = "trigger" => delivered = adaptationPeriod + 1
        /\ sends = 0

====
